---- MODULE Spec2Model ----
(***************************************************************************)
(* Stock reservation protocol and order lifecycle of the Blinkit clone:    *)
(* StockReservationService (reserveStock, releaseReservation),             *)
(* OrderService.createOrder, PaymentService (processPayment,               *)
(* handlePaymentFailure), RazorpayPaymentService.verifyPayment and the     *)
(* auto-expiry timer of the stock reservation flowchart; beside them the   *)
(* delivery partner controller, TransactionManager.executeWithRollback and *)
(* the CircuitBreaker.                                                     *)
(*                                                                         *)
(* Every `await` of the source is one step of the caller that executes it, *)
(* so the callers interleave exactly where the source lets them.           *)
(***************************************************************************)
EXTENDS Integers, Sequences, FiniteSets, TLC

\* ------------------------------------------------------------------------
\* The universe of the model.

Products == {"p1", "p2"}

Orders == {"o1", "o2"}

\* Concurrent processPayment requests (synchronous verify call, webhook).
Deliveries == {"d1", "d2"}

\* The background process that reclaims expired reservations.
Sweeper == "sweeper"

\* The process that gives up waiting for the webhook of an unpaid order.
TimeoutHandler == "timeout"

\* The callers of handlePaymentFailure.
Failers == Deliveries \cup {TimeoutHandler}

Callers == Orders \cup Failers \cup {Sweeper}

\* Value of a Redis key that is not set.
NoHolder == "none"

\* availableQuantity every product starts with.
StockLevel == 2

Item(p, q) == [productId |-> p, quantity |-> q]

\* The carts at checkout: o1 buys both products, o2 competes for p2.
Carts ==
  [o \in Orders |->
     IF o = "o1" THEN <<Item("p1", 2), Item("p2", 1)>>
                 ELSE <<Item("p2", 2)>>]

\* ------------------------------------------------------------------------
\* Payment gateway evidence.

KeySecret == "key_secret"

OtherKey == "other_key"

Unsigned == <<>>

\* Razorpay order ids: the intents of the two orders, and an earlier, paid
\* order of the same merchant.
RazorpayOrderIds == {"rzp_o1", "rzp_o2", "rzp_paid"}

PaymentIds == {"pay_1"}

\* crypto.createHmac('sha256', key).update(body).digest('hex'): a digest that
\* is determined by the key and the body and differs when either differs.
Hmac(key, body) == <<"hmac", key, body>>

Body(razorpay_order_id, razorpay_payment_id) ==
  <<razorpay_order_id, "|", razorpay_payment_id>>

Signatures ==
  {Hmac(k, Body(i, y)) : k \in {KeySecret, OtherKey}, i \in RazorpayOrderIds,
                         y \in PaymentIds} \cup {Unsigned}

\* paymentIntent.id stored as paymentDetails.transactionId of the order.
IntentOf(o) == IF o = "o1" THEN "rzp_o1" ELSE "rzp_o2"

PaymentData ==
  [orderId : Orders, razorpay_order_id : RazorpayOrderIds,
   razorpay_payment_id : PaymentIds, razorpay_signature : Signatures]

verifyPayment(paymentData) ==
  LET body == Body(paymentData.razorpay_order_id,
                   paymentData.razorpay_payment_id)
      expectedSignature == Hmac(KeySecret, body)
  IN  expectedSignature = paymentData.razorpay_signature

\* ------------------------------------------------------------------------
\* State.

VARIABLES
  inventory,      \* Inventory collection: productId -> quantities
  lock,           \* Redis inventory_lock:{productId}: holder or NoHolder
  reservation,    \* Redis reservation:{productId}:{orderId}
  items,          \* line items of each order (the cart at checkout)
  status,         \* order.status ("none": no order document saved)
  paymentStatus,  \* order.paymentDetails.status
  pc,             \* position of each caller in its handler
  idx,            \* loop index of each caller over the line items
  call,           \* arguments of the ledger call a caller is executing
  ret,            \* result of the caller's last reserveStock
  reservations,   \* createOrder's local list of reservations made
  local,          \* reservationData.quantity read by releaseReservation
  tgt,            \* orderId of a processPayment request or of a timeout
  isValidPayment, \* result of verifyPayment in a processPayment request
  verified,       \* orders for whose own intent valid evidence was verified
  applied,        \* per reservation: stock mutations done on its account
  attempts,       \* failed tries of a caller that waits for a lock
  partners,       \* DeliveryPartner collection: _id -> document
  request,        \* position and locals of each delivery partner request
  tx,             \* locals of a call of executeWithRollback
  breaker,        \* CircuitBreaker: failures, lastFailureTime, state
  now,            \* Date.now()
  running         \* position of each caller of CircuitBreaker.execute

\* The state of the stock ledger and of the orders.
ledger ==
  <<inventory, lock, reservation, items, status, paymentStatus, pc, idx, call,
    ret, reservations, local, tgt, isValidPayment, verified, applied,
    attempts>>

\* The state of the delivery partners, of executeWithRollback and of the
\* circuit breaker.
platform == <<partners, request, tx, breaker, now, running>>

vars == <<ledger, platform>>

Keys == Products \X Orders

NoCall == [productId |-> "none", orderId |-> "none", quantity |-> 0]

NoRet == [success |-> FALSE, availableQuantity |-> 0, error |-> "none"]

NoReservation == [quantity |-> 0, state |-> "NONE", expired |-> FALSE]

CallFor(o, i) ==
  [productId |-> items[o][i].productId, orderId |-> o,
   quantity |-> items[o][i].quantity]

\* redisClient.get(reservationKey): the key is present exactly while the
\* reservation is PENDING (del, confirm and expiry remove it).
GetReservation(p, o) ==
  IF reservation[<<p, o>>].state = "PENDING" THEN reservation[<<p, o>>].quantity
  ELSE 0

\* ------------------------------------------------------------------------
\* Delivery partners, executeWithRollback and the circuit breaker: universe
\* and initial state.

\* Concurrent requests to the delivery partner controller.
Clients == {"c1", "c2"}

\* The _id values the DeliveryPartner collection hands out, in this order.
MaxPartners == 3

PartnerIds == 1..MaxPartners

\* req.body.phone, as a string of characters.
Phones == {<<"7">>, <<" ", "7">>, <<"7", " ">>, <<"8">>}

\* trim: true of the schema: white space is taken off both ends.
RECURSIVE Trim(_)
Trim(phone) ==
  IF phone = <<>> THEN phone
  ELSE IF Head(phone) = " " THEN Trim(Tail(phone))
  ELSE IF phone[Len(phone)] = " "
  THEN Trim(SubSeq(phone, 1, Len(phone) - 1))
  ELSE phone

\* An _id under which no document is stored.
NoPartner == [phone |-> <<>>, isAvailable |-> FALSE]

NoRequest ==
  [pc |-> "idle", phone |-> <<>>, partner |-> 0, result |-> "none",
   returned |-> 0]

\* operations.length of a call of executeWithRollback.
MaxOperations == 5

\* The locals of executeWithRollback before a call: i is the index of either
\* loop, executed the rollback operations run so far with their outcome.
NoTransaction ==
  [pc |-> "idle", length |-> 0, i |-> 0, completedOperations |-> <<>>,
   executed |-> <<>>, error |-> <<"none">>, thrown |-> <<"none">>]

\* Concurrent callers of CircuitBreaker.execute.
BreakerCallers == {"b1", "b2"}

\* this.threshold and this.timeout, in units of the clock.
Threshold == 2

Timeout == 2

\* Date.now() stops here.
MaxTime == 6

InitPlatform ==
  /\ partners = [id \in PartnerIds |-> NoPartner]
  /\ request = [c \in Clients |-> NoRequest]
  /\ tx = NoTransaction
  /\ breaker = [failures |-> 0, lastFailureTime |-> 0, state |-> "CLOSED"]
  /\ now = 0
  /\ running = [b \in BreakerCallers |-> "idle"]

Init ==
  /\ inventory = [p \in Products |->
                    [availableQuantity |-> StockLevel, reservedQuantity |-> 0]]
  /\ lock = [p \in Products |-> NoHolder]
  /\ reservation = [k \in Keys |-> NoReservation]
  /\ items = Carts
  /\ status = [o \in Orders |-> "none"]
  /\ paymentStatus = [o \in Orders |-> "none"]
  /\ pc = [c \in Callers |-> "idle"]
  /\ idx = [c \in Callers |-> 0]
  /\ call = [c \in Callers |-> NoCall]
  /\ ret = [o \in Orders |-> NoRet]
  /\ reservations = [o \in Orders |-> <<>>]
  /\ local = [c \in Callers |-> 0]
  /\ tgt = [d \in Failers |-> "none"]
  /\ isValidPayment = [d \in Deliveries |-> FALSE]
  /\ verified = {}
  /\ applied = [k \in Keys |-> [confirm |-> 0, release |-> 0]]
  /\ attempts = [o \in Orders |-> 0]
  /\ InitPlatform

\* ------------------------------------------------------------------------
\* StockReservationService.reserveStock, one step per await.

\* A mutant of ReserveAcquire: the key is set without NX.
ReserveAcquireNoNX(o) ==
  /\ pc[o] = "rs_lock"
  /\ lock' = [lock EXCEPT ![call[o].productId] = o]
  /\ pc' = [pc EXCEPT ![o] = "rs_read"]
  /\ UNCHANGED <<inventory, reservation, items, status, paymentStatus, idx,
                 call, ret, reservations, local, tgt, isValidPayment,
                 verified, applied, attempts, platform>>

\* A mutant of ReserveAcquire: one lock key for the whole inventory.
ReserveAcquireGlobal(o) ==
  /\ pc[o] = "rs_lock"
  /\ LET p == call[o].productId IN
     IF \A q \in Products : lock[q] = NoHolder
     THEN /\ lock' = [lock EXCEPT ![p] = o]
          /\ pc' = [pc EXCEPT ![o] = "rs_read"]
          /\ UNCHANGED <<ret, call, idx>>
     ELSE /\ pc' = [pc EXCEPT ![o] = "failed"]
          /\ ret' = [ret EXCEPT ![o] = [NoRet EXCEPT !.error = "lock"]]
          /\ call' = [call EXCEPT ![o] = NoCall]
          /\ idx' = [idx EXCEPT ![o] = 0]
          /\ UNCHANGED lock
  /\ UNCHANGED <<inventory, reservation, items, status, paymentStatus,
                 reservations, local, tgt, isValidPayment, verified, applied,
                 attempts, platform>>

\* The lock is taken with SET NX PX 10000; a caller that does not get it
\* throws, and createOrder's catch aborts the transaction and rethrows.
ReserveAcquire(o) ==
  /\ pc[o] = "rs_lock"
  /\ LET p == call[o].productId IN
     IF lock[p] = NoHolder
     THEN /\ lock' = [lock EXCEPT ![p] = o]
          /\ pc' = [pc EXCEPT ![o] = "rs_read"]
          /\ UNCHANGED <<ret, call, idx>>
     ELSE /\ pc' = [pc EXCEPT ![o] = "failed"]
          /\ ret' = [ret EXCEPT ![o] = [NoRet EXCEPT !.error = "lock"]]
          /\ call' = [call EXCEPT ![o] = NoCall]
          /\ idx' = [idx EXCEPT ![o] = 0]
          /\ UNCHANGED lock
  /\ UNCHANGED <<inventory, reservation, items, status, paymentStatus,
                 reservations, local, tgt, isValidPayment, verified, applied,
                 attempts, platform>>

\* A mutant of ReserveRead: the result carries availableQuantity as stored,
\* without the reserved quantity taken off.
ReserveReadStored(o) ==
  /\ pc[o] = "rs_read"
  /\ LET inv == inventory[call[o].productId]
         availableQuantity == inv.availableQuantity - inv.reservedQuantity
     IN  IF availableQuantity < call[o].quantity
         THEN /\ ret' = [ret EXCEPT ![o] =
                           [success |-> FALSE,
                            availableQuantity |-> inv.availableQuantity,
                            error |-> "none"]]
              /\ pc' = [pc EXCEPT ![o] = "rs_unlock"]
         ELSE /\ pc' = [pc EXCEPT ![o] = "rs_inc"]
              /\ UNCHANGED ret
  /\ UNCHANGED <<inventory, lock, reservation, items, status, paymentStatus,
                 idx, call, reservations, local, tgt, isValidPayment,
                 verified, applied, attempts, platform>>

\* getInventory and the stock check on the values read.
ReserveRead(o) ==
  /\ pc[o] = "rs_read"
  /\ LET inv == inventory[call[o].productId]
         availableQuantity == inv.availableQuantity - inv.reservedQuantity
     IN  IF availableQuantity < call[o].quantity
         THEN /\ ret' = [ret EXCEPT ![o] =
                           [success |-> FALSE,
                            availableQuantity |-> availableQuantity,
                            error |-> "none"]]
              /\ pc' = [pc EXCEPT ![o] = "rs_unlock"]
         ELSE /\ pc' = [pc EXCEPT ![o] = "rs_inc"]
              /\ UNCHANGED ret
  /\ UNCHANGED <<inventory, lock, reservation, items, status, paymentStatus,
                 idx, call, reservations, local, tgt, isValidPayment,
                 verified, applied, attempts, platform>>

\* updateOne({productId}, {$inc: {reservedQuantity: quantity}}).
ReserveInc(o) ==
  /\ pc[o] = "rs_inc"
  /\ inventory' =
       [inventory EXCEPT ![call[o].productId].reservedQuantity =
                            @ + call[o].quantity]
  /\ pc' = [pc EXCEPT ![o] = "rs_setex"]
  /\ UNCHANGED <<lock, reservation, items, status, paymentStatus, idx, call,
                 ret, reservations, local, tgt, isValidPayment, verified,
                 applied, attempts, platform>>

\* setex(reservationKey, 600, ...), the movement log and the result.
ReserveSetex(o) ==
  /\ pc[o] = "rs_setex"
  /\ reservation' =
       [reservation EXCEPT ![<<call[o].productId, o>>] =
          [quantity |-> call[o].quantity, state |-> "PENDING",
           expired |-> FALSE]]
  /\ ret' = [ret EXCEPT ![o] = [NoRet EXCEPT !.success = TRUE]]
  /\ pc' = [pc EXCEPT ![o] = "rs_unlock"]
  /\ UNCHANGED <<inventory, lock, items, status, paymentStatus, idx, call,
                 reservations, local, tgt, isValidPayment, verified, applied,
                 attempts, platform>>

\* A mutant of AfterReserve: the order document follows the first line item
\* that was reserved.
AfterReserveFirstOnly(o) ==
  IF ret[o].success
  THEN [pc |-> "save", idx |-> 0, call |-> NoCall,
        reservations |-> Append(reservations[o], call[o].productId)]
  ELSE IF reservations[o] = <<>>
       THEN [pc |-> "rejected", idx |-> 0, call |-> NoCall,
             reservations |-> reservations[o]]
       ELSE [pc |-> "rl_get", idx |-> 1,
             call |-> [productId |-> reservations[o][1], orderId |-> o,
                       quantity |-> 0],
             reservations |-> reservations[o]]

\* What createOrder does with the result of reserveStock: next line item,
\* order document, or rollbackReservations and BadRequestError.
AfterReserve(o) ==
  IF ret[o].success
  THEN IF idx[o] < Len(items[o])
       THEN [pc |-> "rs_lock", idx |-> idx[o] + 1,
             call |-> CallFor(o, idx[o] + 1),
             reservations |-> Append(reservations[o], call[o].productId)]
       ELSE [pc |-> "save", idx |-> 0, call |-> NoCall,
             reservations |-> Append(reservations[o], call[o].productId)]
  ELSE IF reservations[o] = <<>>
       THEN [pc |-> "rejected", idx |-> 0, call |-> NoCall,
             reservations |-> reservations[o]]
       ELSE [pc |-> "rl_get", idx |-> 1,
             call |-> [productId |-> reservations[o][1], orderId |-> o,
                       quantity |-> 0],
             reservations |-> reservations[o]]

\* A mutant of ReserveUnlock: reserveStock returns without the del of its
\* finally block.
ReserveUnlockKept(o) ==
  /\ pc[o] = "rs_unlock"
  /\ pc' = [pc EXCEPT ![o] = AfterReserve(o).pc]
  /\ idx' = [idx EXCEPT ![o] = AfterReserve(o).idx]
  /\ call' = [call EXCEPT ![o] = AfterReserve(o).call]
  /\ reservations' = [reservations EXCEPT ![o] = AfterReserve(o).reservations]
  /\ UNCHANGED <<inventory, lock, reservation, items, status, paymentStatus,
                 ret, local, tgt, isValidPayment, verified, applied, attempts,
                 platform>>

\* finally { del(lockKey) }: the key is deleted whoever holds it.
ReserveUnlock(o) ==
  /\ pc[o] = "rs_unlock"
  /\ lock' = [lock EXCEPT ![call[o].productId] = NoHolder]
  /\ pc' = [pc EXCEPT ![o] = AfterReserve(o).pc]
  /\ idx' = [idx EXCEPT ![o] = AfterReserve(o).idx]
  /\ call' = [call EXCEPT ![o] = AfterReserve(o).call]
  /\ reservations' = [reservations EXCEPT ![o] = AfterReserve(o).reservations]
  /\ UNCHANGED <<inventory, reservation, items, status, paymentStatus, ret,
                 local, tgt, isValidPayment, verified, applied, attempts,
                 platform>>

\* An awaited call inside the try block of reserveStock rejects: getInventory,
\* updateOne, setex or logInventoryMovement.  The call that rejects has had
\* no effect.
ReserveThrows(o) ==
  /\ pc[o] \in {"rs_read", "rs_inc", "rs_setex"}
  /\ pc' = [pc EXCEPT ![o] = "rs_thrown"]
  /\ UNCHANGED <<inventory, lock, reservation, items, status, paymentStatus,
                 idx, call, ret, reservations, local, tgt, isValidPayment,
                 verified, applied, attempts, platform>>

\* finally { del(lockKey) } on the way out of a rejected call; the error
\* reaches createOrder's catch, which aborts the transaction and rethrows.
ReserveUnlockThrown(o) ==
  /\ pc[o] = "rs_thrown"
  /\ lock' = [lock EXCEPT ![call[o].productId] = NoHolder]
  /\ pc' = [pc EXCEPT ![o] = "failed"]
  /\ ret' = [ret EXCEPT ![o] = [NoRet EXCEPT !.error = "thrown"]]
  /\ call' = [call EXCEPT ![o] = NoCall]
  /\ idx' = [idx EXCEPT ![o] = 0]
  /\ UNCHANGED <<inventory, reservation, items, status, paymentStatus,
                 reservations, local, tgt, isValidPayment, verified, applied,
                 attempts, platform>>

\* ------------------------------------------------------------------------
\* StockReservationService.releaseReservation, one step per await; its
\* callers are rollbackReservations, handlePaymentFailure and the Sweeper.

\* Where a caller continues when its releaseReservation returns.
AfterRelease(c) ==
  IF c \in Orders
  THEN IF idx[c] < Len(reservations[c])
       THEN [pc |-> "rl_get", idx |-> idx[c] + 1,
             call |-> [productId |-> reservations[c][idx[c] + 1],
                       orderId |-> c, quantity |-> 0]]
       ELSE [pc |-> "rejected", idx |-> 0, call |-> NoCall]
  ELSE IF c \in Failers
  THEN IF idx[c] < Len(items[tgt[c]])
       THEN [pc |-> "rl_get", idx |-> idx[c] + 1,
             call |-> [CallFor(tgt[c], idx[c] + 1) EXCEPT !.quantity = 0]]
       ELSE [pc |-> IF c \in Deliveries THEN "failed" ELSE "idle",
             idx |-> 0, call |-> NoCall]
  ELSE [pc |-> "idle", idx |-> 0, call |-> NoCall]

\* redisClient.get(reservationKey) and the test `if (reservation)`.
ReleaseGet(c) ==
  /\ pc[c] = "rl_get"
  /\ LET quantity == GetReservation(call[c].productId, call[c].orderId) IN
     IF quantity # 0
     THEN /\ local' = [local EXCEPT ![c] = quantity]
          /\ pc' = [pc EXCEPT ![c] = "rl_inc"]
          /\ UNCHANGED <<idx, call>>
     ELSE /\ pc' = [pc EXCEPT ![c] = AfterRelease(c).pc]
          /\ idx' = [idx EXCEPT ![c] = AfterRelease(c).idx]
          /\ call' = [call EXCEPT ![c] = AfterRelease(c).call]
          /\ UNCHANGED local
  /\ UNCHANGED <<inventory, lock, reservation, items, status, paymentStatus,
                 ret, reservations, tgt, isValidPayment, verified, applied,
                 attempts, platform>>

\* A mutant of ReleaseInc: the quantity is given back by raising
\* availableQuantity.
ReleaseIncAvailable(c) ==
  /\ pc[c] = "rl_inc"
  /\ inventory' =
       [inventory EXCEPT ![call[c].productId].availableQuantity = @ + local[c]]
  /\ applied' =
       [applied EXCEPT
          ![<<call[c].productId, call[c].orderId>>].release = @ + 1]
  /\ pc' = [pc EXCEPT ![c] = "rl_del"]
  /\ UNCHANGED <<lock, reservation, items, status, paymentStatus, idx, call,
                 ret, reservations, local, tgt, isValidPayment, verified,
                 attempts, platform>>

\* A mutant of ReleaseInc: the reserved quantity is not given back.
ReleaseIncNoDecrement(c) ==
  /\ pc[c] = "rl_inc"
  /\ pc' = [pc EXCEPT ![c] = "rl_del"]
  /\ UNCHANGED <<inventory, lock, reservation, items, status, paymentStatus,
                 idx, call, ret, reservations, local, tgt, isValidPayment,
                 verified, applied, attempts, platform>>

\* updateOne({productId},
\*           {$inc: {reservedQuantity: -reservationData.quantity}}).
ReleaseInc(c) ==
  /\ pc[c] = "rl_inc"
  /\ inventory' =
       [inventory EXCEPT ![call[c].productId].reservedQuantity = @ - local[c]]
  /\ applied' =
       [applied EXCEPT
          ![<<call[c].productId, call[c].orderId>>].release = @ + 1]
  /\ pc' = [pc EXCEPT ![c] = "rl_del"]
  /\ UNCHANGED <<lock, reservation, items, status, paymentStatus, idx, call,
                 ret, reservations, local, tgt, isValidPayment, verified,
                 attempts, platform>>

\* del(reservationKey) and the movement log; a reservation removed by the
\* Sweeper is EXPIRED, one removed by another caller is RELEASED.
ReleaseDel(c) ==
  /\ pc[c] = "rl_del"
  /\ LET k == <<call[c].productId, call[c].orderId>> IN
     reservation' =
       IF reservation[k].state = "PENDING"
       THEN [reservation EXCEPT ![k].state =
               IF c = Sweeper THEN "EXPIRED" ELSE "RELEASED"]
       ELSE reservation
  /\ pc' = [pc EXCEPT ![c] = AfterRelease(c).pc]
  /\ idx' = [idx EXCEPT ![c] = AfterRelease(c).idx]
  /\ call' = [call EXCEPT ![c] = AfterRelease(c).call]
  /\ local' = [local EXCEPT ![c] = 0]
  /\ UNCHANGED <<inventory, lock, items, status, paymentStatus, ret,
                 reservations, tgt, isValidPayment, verified, applied,
                 attempts, platform>>

\* ------------------------------------------------------------------------
\* OrderService.createOrder around the reservation loop.

\* Steps 1-3: the validated cart, then the first reserveStock.
CreateOrder(o) ==
  /\ pc[o] = "idle"
  /\ IF Len(items[o]) = 0
     THEN /\ pc' = [pc EXCEPT ![o] = "failed"]
          /\ UNCHANGED <<idx, call>>
     ELSE /\ pc' = [pc EXCEPT ![o] = "rs_lock"]
          /\ idx' = [idx EXCEPT ![o] = 1]
          /\ call' = [call EXCEPT ![o] = CallFor(o, 1)]
  /\ UNCHANGED <<inventory, lock, reservation, items, status, paymentStatus,
                 ret, reservations, local, tgt, isValidPayment, verified,
                 applied, attempts, platform>>

\* Steps 4-6: the order document, status 'created', payment 'pending'.
SaveOrder(o) ==
  /\ pc[o] = "save"
  /\ status' = [status EXCEPT ![o] = "created"]
  /\ paymentStatus' = [paymentStatus EXCEPT ![o] = "pending"]
  /\ pc' = [pc EXCEPT ![o] = "intent"]
  /\ UNCHANGED <<inventory, lock, reservation, items, idx, call, ret,
                 reservations, local, tgt, isValidPayment, verified, applied,
                 attempts, platform>>

\* Steps 7-9: the payment intent is created and returned to the client.
CreatePaymentIntent(o) ==
  /\ pc[o] = "intent"
  /\ pc' = [pc EXCEPT ![o] = "done"]
  /\ UNCHANGED <<inventory, lock, reservation, items, status, paymentStatus,
                 idx, call, ret, reservations, local, tgt, isValidPayment,
                 verified, applied, attempts, platform>>

\* ------------------------------------------------------------------------
\* PaymentService.processPayment and handlePaymentFailure.

\* The gateway signs with the key secret, and only for Razorpay orders that
\* exist; any other signature a request carries is forged or missing.
Obtainable(paymentData) ==
  \A i \in RazorpayOrderIds, y \in PaymentIds :
    paymentData.razorpay_signature = Hmac(KeySecret, Body(i, y))
    => \/ i = "rzp_paid"
       \/ \E o \in Orders : IntentOf(o) = i /\ pc[o] = "done"

\* Steps 1-3: verifyPayment, then updatePaymentStatus; evidence that fails
\* the check throws into the catch block.
ProcessPayment(d, paymentData) ==
  /\ pc[d] = "idle"
  /\ pc[paymentData.orderId] = "done"
  /\ Obtainable(paymentData)
  /\ tgt' = [tgt EXCEPT ![d] = paymentData.orderId]
  /\ isValidPayment' =
       [isValidPayment EXCEPT ![d] = verifyPayment(paymentData)]
  /\ IF verifyPayment(paymentData)
     THEN /\ paymentStatus' =
               [paymentStatus EXCEPT ![paymentData.orderId] = "completed"]
          /\ verified' =
               IF paymentData.razorpay_order_id = IntentOf(paymentData.orderId)
               THEN verified \cup {paymentData.orderId}
               ELSE verified
          /\ idx' = [idx EXCEPT ![d] = 1]
          /\ call' = [call EXCEPT ![d] = CallFor(paymentData.orderId, 1)]
          /\ pc' = [pc EXCEPT ![d] = "cf_lock"]
     ELSE /\ pc' = [pc EXCEPT ![d] = "pf_status"]
          /\ UNCHANGED <<paymentStatus, verified, idx, call>>
  /\ UNCHANGED <<inventory, lock, reservation, items, status, ret,
                 reservations, local, applied, attempts, platform>>

\* confirmReservation, lease acquisition: LockUnavailable when the retries
\* are used up while another caller holds the lease.
ConfirmAcquire(d) ==
  /\ pc[d] = "cf_lock"
  /\ IF lock[call[d].productId] = NoHolder
     THEN /\ lock' = [lock EXCEPT ![call[d].productId] = d]
          /\ pc' = [pc EXCEPT ![d] = "cf_body"]
          /\ UNCHANGED <<idx, call>>
     ELSE /\ pc' = [pc EXCEPT ![d] = "pf_status"]
          /\ idx' = [idx EXCEPT ![d] = 0]
          /\ call' = [call EXCEPT ![d] = NoCall]
          /\ UNCHANGED lock
  /\ UNCHANGED <<inventory, reservation, items, status, paymentStatus, ret,
                 reservations, local, tgt, isValidPayment, verified, applied,
                 attempts, platform>>

\* Where processPayment continues when confirmReservation returns.
AfterConfirm(d, ok) ==
  IF ~ok THEN [pc |-> "pf_status", idx |-> 0, call |-> NoCall]
  ELSE IF idx[d] < Len(items[tgt[d]])
  THEN [pc |-> "cf_lock", idx |-> idx[d] + 1,
        call |-> CallFor(tgt[d], idx[d] + 1)]
  ELSE [pc |-> "cf_status", idx |-> 0, call |-> NoCall]

\* A mutant of ConfirmBody: the sale frees the reserved quantity but leaves
\* availableQuantity as it was.
ConfirmBodyKeepAvailable(d) ==
  /\ pc[d] = "cf_body"
  /\ LET p == call[d].productId
         k == <<call[d].productId, call[d].orderId>>
         r == reservation[k]
         sell == r.state = "PENDING" /\ ~r.expired
         ok == sell \/ r.state = "CONFIRMED"
     IN  /\ lock' = IF lock[p] = d THEN [lock EXCEPT ![p] = NoHolder] ELSE lock
         /\ inventory' =
              IF sell
              THEN [inventory EXCEPT ![p].reservedQuantity = @ - r.quantity]
              ELSE inventory
         /\ reservation' =
              IF sell THEN [reservation EXCEPT ![k].state = "CONFIRMED"]
              ELSE reservation
         /\ applied' =
              IF sell THEN [applied EXCEPT ![k].confirm = @ + 1] ELSE applied
         /\ pc' = [pc EXCEPT ![d] = AfterConfirm(d, ok).pc]
         /\ idx' = [idx EXCEPT ![d] = AfterConfirm(d, ok).idx]
         /\ call' = [call EXCEPT ![d] = AfterConfirm(d, ok).call]
  /\ UNCHANGED <<items, status, paymentStatus, ret, reservations, local, tgt,
                 isValidPayment, verified, attempts, platform>>

\* A mutant of ConfirmBody: the expiry of the reservation is not looked at.
ConfirmBodyIgnoreExpiry(d) ==
  /\ pc[d] = "cf_body"
  /\ LET p == call[d].productId
         k == <<call[d].productId, call[d].orderId>>
         r == reservation[k]
         sell == r.state = "PENDING"
         ok == sell \/ r.state = "CONFIRMED"
     IN  /\ lock' = IF lock[p] = d THEN [lock EXCEPT ![p] = NoHolder] ELSE lock
         /\ inventory' =
              IF sell
              THEN [inventory EXCEPT
                      ![p].availableQuantity = @ - r.quantity,
                      ![p].reservedQuantity = @ - r.quantity]
              ELSE inventory
         /\ reservation' =
              IF sell THEN [reservation EXCEPT ![k].state = "CONFIRMED"]
              ELSE reservation
         /\ applied' =
              IF sell THEN [applied EXCEPT ![k].confirm = @ + 1] ELSE applied
         /\ pc' = [pc EXCEPT ![d] = AfterConfirm(d, ok).pc]
         /\ idx' = [idx EXCEPT ![d] = AfterConfirm(d, ok).idx]
         /\ call' = [call EXCEPT ![d] = AfterConfirm(d, ok).call]
  /\ UNCHANGED <<items, status, paymentStatus, ret, reservations, local, tgt,
                 isValidPayment, verified, attempts, platform>>

\* confirmReservation under the lease: a PENDING, unexpired reservation is
\* sold; a CONFIRMED one is left as it is; anything else is an error. The
\* lease is released by its holder only.
ConfirmBody(d) ==
  /\ pc[d] = "cf_body"
  /\ LET p == call[d].productId
         k == <<call[d].productId, call[d].orderId>>
         r == reservation[k]
         sell == r.state = "PENDING" /\ ~r.expired
         ok == sell \/ r.state = "CONFIRMED"
     IN  /\ lock' = IF lock[p] = d THEN [lock EXCEPT ![p] = NoHolder] ELSE lock
         /\ inventory' =
              IF sell
              THEN [inventory EXCEPT
                      ![p].availableQuantity = @ - r.quantity,
                      ![p].reservedQuantity = @ - r.quantity]
              ELSE inventory
         /\ reservation' =
              IF sell THEN [reservation EXCEPT ![k].state = "CONFIRMED"]
              ELSE reservation
         /\ applied' =
              IF sell THEN [applied EXCEPT ![k].confirm = @ + 1] ELSE applied
         /\ pc' = [pc EXCEPT ![d] = AfterConfirm(d, ok).pc]
         /\ idx' = [idx EXCEPT ![d] = AfterConfirm(d, ok).idx]
         /\ call' = [call EXCEPT ![d] = AfterConfirm(d, ok).call]
  /\ UNCHANGED <<items, status, paymentStatus, ret, reservations, local, tgt,
                 isValidPayment, verified, attempts, platform>>

\* Steps 5-7: clearCart, updateOrderStatus(..., 'confirmed'), the event.
ConfirmStatus(d) ==
  /\ pc[d] = "cf_status"
  /\ status' = [status EXCEPT ![tgt[d]] = "confirmed"]
  /\ pc' = [pc EXCEPT ![d] = "done"]
  /\ UNCHANGED <<inventory, lock, reservation, items, paymentStatus, idx,
                 call, ret, reservations, local, tgt, isValidPayment,
                 verified, applied, attempts, platform>>

\* catch (error): handlePaymentFailure sets 'payment_failed', reads the
\* order and starts releasing the reservation of every line item.
HandlePaymentFailure(d) ==
  /\ pc[d] = "pf_status"
  /\ status' = [status EXCEPT ![tgt[d]] = "payment_failed"]
  /\ idx' = [idx EXCEPT ![d] = 1]
  /\ call' = [call EXCEPT ![d] = [CallFor(tgt[d], 1) EXCEPT !.quantity = 0]]
  /\ pc' = [pc EXCEPT ![d] = "rl_get"]
  /\ UNCHANGED <<inventory, lock, reservation, items, paymentStatus, ret,
                 reservations, local, tgt, isValidPayment, verified, applied,
                 attempts, platform>>

\* Payment pending, wait for webhook, timeout: the order is handled as a
\* failed payment.
PaymentTimeout(o) ==
  /\ pc[TimeoutHandler] = "idle"
  /\ pc[o] = "done"
  /\ status[o] = "created"
  /\ tgt' = [tgt EXCEPT ![TimeoutHandler] = o]
  /\ pc' = [pc EXCEPT ![TimeoutHandler] = "pf_status"]
  /\ UNCHANGED <<inventory, lock, reservation, items, status, paymentStatus,
                 idx, call, ret, reservations, local, isValidPayment,
                 verified, applied, attempts, platform>>

\* ------------------------------------------------------------------------
\* Expiry: the timer of a reservation, the auto-release, the lock's TTL.

\* Timer: 10 minutes have passed since the reservation was made.
TimerExpire(k) ==
  /\ reservation[k].state = "PENDING"
  /\ ~reservation[k].expired
  /\ reservation' = [reservation EXCEPT ![k].expired = TRUE]
  /\ UNCHANGED <<inventory, lock, items, status, paymentStatus, pc, idx, call,
                 ret, reservations, local, tgt, isValidPayment, verified,
                 applied, attempts, platform>>

\* Auto-release if not confirmed: the Sweeper picks a reservation that is
\* past its expiry and still unconfirmed and releases it.
SweepScan(k) ==
  /\ pc[Sweeper] = "idle"
  /\ reservation[k].state = "PENDING"
  /\ reservation[k].expired
  /\ call' = [call EXCEPT ![Sweeper] =
                [productId |-> k[1], orderId |-> k[2], quantity |-> 0]]
  /\ pc' = [pc EXCEPT ![Sweeper] = "rl_get"]
  /\ UNCHANGED <<inventory, lock, reservation, items, status, paymentStatus,
                 idx, ret, reservations, local, tgt, isValidPayment, verified,
                 applied, attempts, platform>>

\* A mutant of LockExpire: the key is set without PX and stays for ever.
LockNoTTL(p) ==
  /\ lock[p] # NoHolder
  /\ UNCHANGED vars

\* The lock key was set with PX 10000: it disappears after ten seconds,
\* whatever its holder is doing.
LockExpire(p) ==
  /\ lock[p] # NoHolder
  /\ lock' = [lock EXCEPT ![p] = NoHolder]
  /\ UNCHANGED <<inventory, reservation, items, status, paymentStatus, pc,
                 idx, call, ret, reservations, local, tgt, isValidPayment,
                 verified, applied, attempts, platform>>

\* ------------------------------------------------------------------------
\* Specifications.

OrderStep(o) ==
  \/ CreateOrder(o)
  \/ ReserveAcquire(o)
  \/ ReserveRead(o)
  \/ ReserveInc(o)
  \/ ReserveSetex(o)
  \/ ReserveUnlock(o)
  \/ SaveOrder(o)
  \/ CreatePaymentIntent(o)

ReleaseStep(c) ==
  \/ ReleaseGet(c)
  \/ ReleaseInc(c)
  \/ ReleaseDel(c)

PaymentStep(d) ==
  \/ \E paymentData \in PaymentData : ProcessPayment(d, paymentData)
  \/ ConfirmAcquire(d)
  \/ ConfirmBody(d)
  \/ ConfirmStatus(d)
  \/ HandlePaymentFailure(d)

SweeperStep ==
  \/ \E k \in Keys : SweepScan(k)
  \/ ReleaseStep(Sweeper)

Next ==
  \/ \E o \in Orders : OrderStep(o)
  \/ \E c \in Orders \cup Deliveries : ReleaseStep(c)
  \/ \E d \in Deliveries : PaymentStep(d)
  \/ SweeperStep
  \/ \E k \in Keys : TimerExpire(k)
  \/ \E p \in Products : LockExpire(p)

Spec == Init /\ [][Next]_vars

\* ------------------------------------------------------------------------
\* Scenario A: ProductStock {available: 5, reserved: 0} and two orders that
\* each reserve the same product, three units in the scenario itself.

ScenarioStock == 5

ScenarioQuantity == 3

InitA ==
  /\ inventory = [p \in Products |->
                    [availableQuantity |-> ScenarioStock,
                     reservedQuantity |-> 0]]
  /\ lock = [p \in Products |-> NoHolder]
  /\ reservation = [k \in Keys |-> NoReservation]
  /\ items \in [Orders -> {<<Item("p1", q)>> : q \in 2..ScenarioQuantity}]
  /\ status = [o \in Orders |-> "none"]
  /\ paymentStatus = [o \in Orders |-> "none"]
  /\ pc = [c \in Callers |-> "idle"]
  /\ idx = [c \in Callers |-> 0]
  /\ call = [c \in Callers |-> NoCall]
  /\ ret = [o \in Orders |-> NoRet]
  /\ reservations = [o \in Orders |-> <<>>]
  /\ local = [c \in Callers |-> 0]
  /\ tgt = [d \in Failers |-> "none"]
  /\ isValidPayment = [d \in Deliveries |-> FALSE]
  /\ verified = {}
  /\ applied = [k \in Keys |-> [confirm |-> 0, release |-> 0]]
  /\ attempts = [o \in Orders |-> 0]
  /\ InitPlatform

NextA ==
  \/ \E o \in Orders : OrderStep(o)
  \/ \E p \in Products : LockExpire(p)

SpecA == InitA /\ [][NextA]_vars

\* ------------------------------------------------------------------------
\* Checkout, one payment request, expiry and the Sweeper, which runs on a
\* fixed interval: once it can take a step it eventually takes one.

LiveDelivery == "d1"

NextLive ==
  \/ \E o \in Orders : OrderStep(o)
  \/ \E c \in Orders \cup {LiveDelivery} : ReleaseStep(c)
  \/ PaymentStep(LiveDelivery)
  \/ SweeperStep
  \/ \E k \in Keys : TimerExpire(k)
  \/ \E p \in Products : LockExpire(p)

LiveSpec == Init /\ [][NextLive]_vars /\ WF_vars(SweeperStep)

\* ------------------------------------------------------------------------
\* Checkout and payment requests within the reservation window: no
\* reservation expires and the Sweeper has nothing to do.

NextPayment ==
  \/ \E o \in Orders : OrderStep(o)
  \/ \E c \in Orders \cup Deliveries : ReleaseStep(c)
  \/ \E d \in Deliveries : PaymentStep(d)
  \/ \E p \in Products : LockExpire(p)

PaymentSpec == Init /\ [][NextPayment]_vars

\* ------------------------------------------------------------------------
\* Scenario B: the stock of scenario A, checkout and payment requests.

SpecB == InitA /\ [][NextPayment]_vars

\* ------------------------------------------------------------------------
\* Scenario C: one order checks out and no payment request ever arrives.
\* Time passes, the Sweeper runs on its interval and the wait for the
\* webhook times out.

ScenarioOrder == "o1"

TimeoutStep ==
  \/ PaymentTimeout(ScenarioOrder)
  \/ HandlePaymentFailure(TimeoutHandler)
  \/ ReleaseStep(TimeoutHandler)

TimerStep == \E k \in Keys : TimerExpire(k)

NextC ==
  \/ OrderStep(ScenarioOrder)
  \/ ReleaseStep(ScenarioOrder)
  \/ TimeoutStep
  \/ SweeperStep
  \/ TimerStep
  \/ \E p \in Products : LockExpire(p)

SpecC ==
  /\ Init
  /\ [][NextC]_vars
  /\ WF_vars(TimeoutStep)
  /\ WF_vars(SweeperStep)
  /\ WF_vars(TimerStep)

\* ------------------------------------------------------------------------
\* The Stock Reservation Process of the flowchart: a caller that finds the
\* lock taken waits 100 ms and tries again, with no limit on the tries.

MaxAttempts == 3

\* GET_LOCK, LOCK_SUCCESS, LOCK_FAILED and WAIT.  The count of failed tries
\* stops one above MaxAttempts to keep the state space finite.
GetLock(o) ==
  /\ pc[o] = "rs_lock"
  /\ LET p == call[o].productId IN
     IF lock[p] = NoHolder
     THEN /\ lock' = [lock EXCEPT ![p] = o]
          /\ pc' = [pc EXCEPT ![o] = "rs_read"]
          /\ attempts' = [attempts EXCEPT ![o] = 0]
     ELSE /\ attempts[o] <= MaxAttempts
          /\ attempts' = [attempts EXCEPT ![o] = attempts[o] + 1]
          /\ UNCHANGED <<lock, pc>>
  /\ UNCHANGED <<inventory, reservation, items, status, paymentStatus, idx,
                 call, ret, reservations, local, tgt, isValidPayment,
                 verified, applied, platform>>

\* The process of a caller stops between the SET of the lock key and the
\* del of the finally block: the key is left behind.
Crash(o) ==
  /\ pc[o] \in {"rs_read", "rs_inc", "rs_setex", "rs_unlock"}
  /\ lock[call[o].productId] = o
  /\ pc' = [pc EXCEPT ![o] = "crashed"]
  /\ UNCHANGED <<inventory, lock, reservation, items, status, paymentStatus,
                 idx, call, ret, reservations, local, tgt, isValidPayment,
                 verified, applied, attempts, platform>>

LockStep(o) ==
  \/ CreateOrder(o)
  \/ GetLock(o)
  \/ ReserveRead(o)
  \/ ReserveInc(o)
  \/ ReserveSetex(o)
  \/ ReserveUnlock(o)
  \/ SaveOrder(o)
  \/ CreatePaymentIntent(o)
  \/ ReleaseStep(o)

NextLock ==
  \/ \E o \in Orders : LockStep(o)
  \/ \E o \in Orders : Crash(o)
  \/ \E p \in Products : LockExpire(p)

SpecLock ==
  /\ Init
  /\ [][NextLock]_vars
  /\ \A o \in Orders : WF_vars(LockStep(o))
  /\ \A p \in Products : WF_vars(LockExpire(p))

\* ------------------------------------------------------------------------
\* The Order Status Lifecycle diagram after the payment: fulfilment,
\* cancellation and refund are single writes of the order's status.

StatusOnly ==
  UNCHANGED <<inventory, lock, reservation, items, paymentStatus, pc, idx,
              call, ret, reservations, local, tgt, isValidPayment, verified,
              applied, attempts, platform>>

\* Confirmed --> Preparing: Kitchen/Warehouse
Prepare(o) ==
  /\ status[o] = "confirmed"
  /\ status' = [status EXCEPT ![o] = "preparing"]
  /\ StatusOnly

\* Preparing --> ReadyForPickup: Items Ready
ItemsReady(o) ==
  /\ status[o] = "preparing"
  /\ status' = [status EXCEPT ![o] = "ready_for_pickup"]
  /\ StatusOnly

\* ReadyForPickup --> OutForDelivery: Assigned to Delivery Partner
AssignDelivery(o) ==
  /\ status[o] = "ready_for_pickup"
  /\ status' = [status EXCEPT ![o] = "out_for_delivery"]
  /\ StatusOnly

\* OutForDelivery --> Delivered: Successfully Delivered
Deliver(o) ==
  /\ status[o] = "out_for_delivery"
  /\ status' = [status EXCEPT ![o] = "delivered"]
  /\ StatusOnly

\* Confirmed, Preparing, ReadyForPickup --> Cancelled: User/Admin
\* Cancellation
cancelOrder(o) ==
  /\ status[o] \in {"confirmed", "preparing", "ready_for_pickup"}
  /\ status' = [status EXCEPT ![o] = "cancelled"]
  /\ StatusOnly

\* Cancelled --> Refunded: Refund Processed
refundOrder(o) ==
  /\ status[o] = "cancelled"
  /\ status' = [status EXCEPT ![o] = "refunded"]
  /\ StatusOnly

LifecycleStep(o) ==
  \/ Prepare(o)
  \/ ItemsReady(o)
  \/ AssignDelivery(o)
  \/ Deliver(o)
  \/ cancelOrder(o)
  \/ refundOrder(o)

NextLifecycle ==
  \/ \E o \in Orders : OrderStep(o)
  \/ \E c \in Orders \cup {LiveDelivery} : ReleaseStep(c)
  \/ PaymentStep(LiveDelivery)
  \/ \E o \in Orders : LifecycleStep(o)

SpecLifecycle == Init /\ [][NextLifecycle]_vars

\* ------------------------------------------------------------------------
\* createOrder when a step after the reservations throws: the catch block
\* aborts the session's transaction and rethrows.  The stock updates and
\* the Redis keys of reserveStock are not part of that transaction.

\* Step 5, order.save({ session }), throws.
SaveOrderFails(o) ==
  /\ pc[o] = "save"
  /\ pc' = [pc EXCEPT ![o] = "failed"]
  /\ UNCHANGED <<inventory, lock, reservation, items, status, paymentStatus,
                 idx, call, ret, reservations, local, tgt, isValidPayment,
                 verified, applied, attempts, platform>>

\* Step 7, createPaymentIntent, throws: the saved order is rolled back with
\* the transaction.
CreatePaymentIntentFails(o) ==
  /\ pc[o] = "intent"
  /\ status' = [status EXCEPT ![o] = "none"]
  /\ paymentStatus' = [paymentStatus EXCEPT ![o] = "none"]
  /\ pc' = [pc EXCEPT ![o] = "failed"]
  /\ UNCHANGED <<inventory, lock, reservation, items, idx, call, ret,
                 reservations, local, tgt, isValidPayment, verified, applied,
                 attempts, platform>>

FailStep(o) ==
  \/ SaveOrderFails(o)
  \/ CreatePaymentIntentFails(o)
  \/ Crash(o)

NextFail ==
  \/ \E o \in Orders : OrderStep(o)
  \/ \E o \in Orders : ReleaseStep(o)
  \/ \E o \in Orders : FailStep(o)
  \/ SweeperStep
  \/ TimerStep
  \/ \E p \in Products : LockExpire(p)

SpecFail ==
  /\ Init
  /\ [][NextFail]_vars
  /\ \A o \in Orders : WF_vars(OrderStep(o) \/ ReleaseStep(o))
  /\ WF_vars(SweeperStep)
  /\ WF_vars(TimerStep)
  /\ \A p \in Products : WF_vars(LockExpire(p))

\* ------------------------------------------------------------------------
\* One order and one payment request for it, with the reservation timers
\* and the auto-release running beside them.

NextRace ==
  \/ OrderStep(ScenarioOrder)
  \/ PaymentStep(LiveDelivery)
  \/ ReleaseStep(LiveDelivery)
  \/ SweeperStep
  \/ TimerStep

SpecRace == Init /\ [][NextRace]_vars

\* ------------------------------------------------------------------------
\* processPayment when a collaborator throws after the confirmations: the
\* calls are inside the try block, so the catch runs handlePaymentFailure.

\* Step 5, cartService.clearCart, throws.
ClearCartFails(d) ==
  /\ pc[d] = "cf_status"
  /\ pc' = [pc EXCEPT ![d] = "pf_status"]
  /\ UNCHANGED <<inventory, lock, reservation, items, status, paymentStatus,
                 idx, call, ret, reservations, local, tgt, isValidPayment,
                 verified, applied, attempts, platform>>

\* Step 7, eventPublisher.publish, throws after step 6 has set the order
\* 'confirmed'.
PublishFails(d) ==
  /\ pc[d] = "cf_status"
  /\ status' = [status EXCEPT ![tgt[d]] = "confirmed"]
  /\ pc' = [pc EXCEPT ![d] = "pf_status"]
  /\ UNCHANGED <<inventory, lock, reservation, items, paymentStatus, idx,
                 call, ret, reservations, local, tgt, isValidPayment,
                 verified, applied, attempts, platform>>

NextCollab ==
  \/ \E o \in Orders : OrderStep(o)
  \/ \E c \in Orders \cup {LiveDelivery} : ReleaseStep(c)
  \/ PaymentStep(LiveDelivery)
  \/ ClearCartFails(LiveDelivery)
  \/ PublishFails(LiveDelivery)

SpecCollab == Init /\ [][NextCollab]_vars

\* ------------------------------------------------------------------------
\* A checkout that is requested again for the same cart and user: nothing
\* in createOrder or reserveStock recognises the earlier request, and
\* reserveStock is called again with the same productId and orderId.

RetryCheckout(o) ==
  /\ pc[o] \in {"done", "failed", "rejected"}
  /\ pc' = [pc EXCEPT ![o] = "rs_lock"]
  /\ idx' = [idx EXCEPT ![o] = 1]
  /\ call' = [call EXCEPT ![o] = CallFor(o, 1)]
  /\ ret' = [ret EXCEPT ![o] = NoRet]
  /\ reservations' = [reservations EXCEPT ![o] = <<>>]
  /\ UNCHANGED <<inventory, lock, reservation, items, status, paymentStatus,
                 local, tgt, isValidPayment, verified, applied, attempts,
                 platform>>

NextRetry ==
  \/ \E o \in Orders : OrderStep(o)
  \/ \E o \in Orders : RetryCheckout(o)
  \/ \E c \in Orders \cup {LiveDelivery} : ReleaseStep(c)
  \/ PaymentStep(LiveDelivery)

SpecRetry == InitA /\ [][NextRetry]_vars

\* ------------------------------------------------------------------------
\* One order whose reservations run out while a payment request for it is
\* being handled: timers, auto-release, the timeout of the payment flow and
\* processPayment side by side.

NextTimeout ==
  \/ NextC
  \/ PaymentStep(LiveDelivery)
  \/ ReleaseStep(LiveDelivery)

SpecTimeout == Init /\ [][NextTimeout]_vars

\* ------------------------------------------------------------------------
\* Checkout and payment requests where any awaited call inside reserveStock
\* may reject.

ThrowStep(o) ==
  \/ ReserveThrows(o)
  \/ ReserveUnlockThrown(o)

NextThrow ==
  \/ NextPayment
  \/ \E o \in Orders : ThrowStep(o)

SpecThrow == Init /\ [][NextThrow]_vars

\* ------------------------------------------------------------------------
\* deliveryPartner.controller.js, one step per await.

Registered(id) == partners[id] # NoPartner

\* The documents whose phone is the given (stored) value.
WithPhone(phone) == {id \in PartnerIds : partners[id].phone = phone}

FreeIds == {id \in PartnerIds : ~Registered(id)}

\* registerPartner: findOne({ phone }), a match is answered with 400.
\* Whether the filter is compared trimmed or as sent depends on the version
\* of the library, so both are possible.
registerPartner(c, phone) ==
  /\ request[c].pc = "idle"
  /\ \E filter \in {phone, Trim(phone)} :
       request' =
         [request EXCEPT ![c] =
            IF WithPhone(filter) # {}
            THEN [NoRequest EXCEPT !.phone = phone, !.result = "400"]
            ELSE [NoRequest EXCEPT !.phone = phone, !.pc = "rp_create"]]
  /\ UNCHANGED <<partners, tx, breaker, now, running, ledger>>

\* A mutant of CreatePartner: the collection has no unique index on phone.
CreatePartnerNoIndex(c) ==
  /\ request[c].pc = "rp_create"
  /\ FreeIds # {}
  /\ LET id == CHOOSE i \in FreeIds : \A j \in FreeIds : i <= j IN
     /\ partners' =
          [partners EXCEPT ![id] =
             [phone |-> Trim(request[c].phone), isAvailable |-> TRUE]]
     /\ request' = [request EXCEPT ![c].pc = "idle", ![c].result = "201"]
  /\ UNCHANGED <<tx, breaker, now, running, ledger>>

\* registerPartner: DeliveryPartner.create({..., isAvailable: true}).  The
\* phone is stored trimmed; the unique index of the schema rejects a second
\* document with the same phone, and the error goes to next(error).
CreatePartner(c) ==
  /\ request[c].pc = "rp_create"
  /\ IF WithPhone(Trim(request[c].phone)) # {}
     THEN /\ request' =
               [request EXCEPT ![c].pc = "idle", ![c].result = "error"]
          /\ UNCHANGED partners
     ELSE LET id == CHOOSE i \in FreeIds : \A j \in FreeIds : i <= j IN
          /\ partners' =
               [partners EXCEPT ![id] =
                  [phone |-> Trim(request[c].phone), isAvailable |-> TRUE]]
          /\ request' =
               [request EXCEPT ![c].pc = "idle", ![c].result = "201"]
  /\ UNCHANGED <<tx, breaker, now, running, ledger>>

\* assignDeliveryPartner: aggregate([$match isAvailable, $sample 1]); an
\* empty result throws and the catch returns null.
assignDeliveryPartner(c) ==
  /\ request[c].pc = "idle"
  /\ LET available ==
           {id \in PartnerIds : Registered(id) /\ partners[id].isAvailable}
     IN  IF available = {}
         THEN request' = [request EXCEPT ![c] =
                            [NoRequest EXCEPT !.result = "null"]]
         ELSE \E id \in available :
                request' = [request EXCEPT ![c] =
                              [NoRequest EXCEPT !.pc = "as_update",
                                                !.partner = id]]
  /\ UNCHANGED <<partners, tx, breaker, now, running, ledger>>

\* assignDeliveryPartner: findByIdAndUpdate(partner[0]._id,
\* { isAvailable: false }) and the return of the partner.
MarkUnavailable(c) ==
  /\ request[c].pc = "as_update"
  /\ partners' = [partners EXCEPT ![request[c].partner].isAvailable = FALSE]
  /\ request' = [request EXCEPT ![c].pc = "idle", ![c].result = "partner",
                                ![c].returned = request[c].partner]
  /\ UNCHANGED <<tx, breaker, now, running, ledger>>

\* markAsAvailable(partnerId): findByIdAndUpdate(partnerId,
\* { isAvailable: true }); an _id without a document updates nothing.
markAsAvailable(c, partnerId) ==
  /\ request[c].pc = "idle"
  /\ partners' =
       IF Registered(partnerId)
       THEN [partners EXCEPT ![partnerId].isAvailable = TRUE]
       ELSE partners
  /\ request' = [request EXCEPT ![c] =
                   [NoRequest EXCEPT !.partner = partnerId, !.result = "true"]]
  /\ UNCHANGED <<tx, breaker, now, running, ledger>>

\* updatePartnerStatus: findByIdAndUpdate(partnerId, { isAvailable }), 404
\* when there is no such document.
updatePartnerStatus(c, partnerId, isAvailable) ==
  /\ request[c].pc = "idle"
  /\ IF Registered(partnerId)
     THEN /\ partners' =
               [partners EXCEPT ![partnerId].isAvailable = isAvailable]
          /\ request' =
               [request EXCEPT ![c] =
                  [NoRequest EXCEPT !.partner = partnerId, !.result = "200"]]
     ELSE /\ request' =
               [request EXCEPT ![c] =
                  [NoRequest EXCEPT !.partner = partnerId, !.result = "404"]]
          /\ UNCHANGED partners
  /\ UNCHANGED <<tx, breaker, now, running, ledger>>

PartnerStep(c) ==
  \/ \E phone \in Phones : registerPartner(c, phone)
  \/ CreatePartner(c)
  \/ assignDeliveryPartner(c)
  \/ MarkUnavailable(c)
  \/ \E id \in PartnerIds : markAsAvailable(c, id)
  \/ \E id \in PartnerIds : \E isAvailable \in BOOLEAN :
       updatePartnerStatus(c, id, isAvailable)

NextPartners == \E c \in Clients : PartnerStep(c)

SpecPartners == Init /\ [][NextPartners]_vars

\* ------------------------------------------------------------------------
\* TransactionManager.executeWithRollback, one step per await.  Operations
\* and rollback operations are numbered from 0 as in the source.

TxFrame == UNCHANGED <<partners, request, breaker, now, running, ledger>>

\* The call, with operations and rollbackOperations of the given length.
executeWithRollback(length) ==
  /\ tx.pc = "idle"
  /\ tx' = [NoTransaction EXCEPT !.pc = "try", !.length = length]
  /\ TxFrame

\* await operations[i].execute(); completedOperations.push(i).  An
\* operation that rejects enters the catch block, whose loop starts at the
\* last completed operation.
ExecuteOperation(ok) ==
  /\ tx.pc = "try"
  /\ tx.i < tx.length
  /\ tx' =
       IF ok
       THEN [tx EXCEPT !.i = @ + 1,
                       !.completedOperations = Append(@, tx.i)]
       ELSE [tx EXCEPT !.pc = "catch",
                       !.error = <<"operation", tx.i>>,
                       !.i = Len(tx.completedOperations) - 1]
  /\ TxFrame

\* return operations[operations.length - 1].result; with no operation at
\* all the element is undefined and reading its result throws a TypeError
\* inside the try block.
ReturnResult ==
  /\ tx.pc = "try"
  /\ tx.i = tx.length
  /\ tx' =
       IF tx.length = 0
       THEN [tx EXCEPT !.pc = "catch", !.error = <<"TypeError">>,
                       !.i = Len(tx.completedOperations) - 1]
       ELSE [tx EXCEPT !.pc = "returned"]
  /\ TxFrame

\* A mutant of ExecuteRollback: a rollback that rejects ends the loop.
ExecuteRollbackStops(ok) ==
  /\ tx.pc = "catch"
  /\ tx.i >= 0
  /\ tx' =
       [tx EXCEPT
          !.executed = Append(@, <<tx.completedOperations[tx.i + 1], ok>>),
          !.i = IF ok THEN @ - 1 ELSE -1]
  /\ TxFrame

\* await rollbackOperations[completedOperations[i]].execute() inside its
\* own try; a rejection is logged and the loop goes on.
ExecuteRollback(ok) ==
  /\ tx.pc = "catch"
  /\ tx.i >= 0
  /\ tx' =
       [tx EXCEPT
          !.executed = Append(@, <<tx.completedOperations[tx.i + 1], ok>>),
          !.i = @ - 1]
  /\ TxFrame

\* throw error, after the loop.
Rethrow ==
  /\ tx.pc = "catch"
  /\ tx.i < 0
  /\ tx' = [tx EXCEPT !.pc = "thrown", !.thrown = tx.error]
  /\ TxFrame

NextTx ==
  \/ \E length \in 0..MaxOperations : executeWithRollback(length)
  \/ \E ok \in BOOLEAN : ExecuteOperation(ok)
  \/ ReturnResult
  \/ \E ok \in BOOLEAN : ExecuteRollback(ok)
  \/ Rethrow

SpecTx == Init /\ [][NextTx]_vars

\* ------------------------------------------------------------------------
\* CircuitBreaker: execute is one step up to its await and one step from
\* the settling of the operation to its end, so that calls overlap while
\* their operations are pending.

BreakerFrame == UNCHANGED <<partners, request, tx, ledger>>

\* execute(operation) up to `await operation()`: an OPEN breaker refuses
\* the call until the timeout has passed and turns HALF_OPEN after it.
execute(b) ==
  /\ running[b] # "operation"
  /\ IF breaker.state = "OPEN"
     THEN IF now - breaker.lastFailureTime > Timeout
          THEN /\ breaker' = [breaker EXCEPT !.state = "HALF_OPEN"]
               /\ running' = [running EXCEPT ![b] = "operation"]
          ELSE /\ running' = [running EXCEPT ![b] = "refused"]
               /\ UNCHANGED breaker
     ELSE /\ running' = [running EXCEPT ![b] = "operation"]
          /\ UNCHANGED breaker
  /\ UNCHANGED now
  /\ BreakerFrame

\* The operation resolves: onSuccess() and the result is returned.
onSuccess(b) ==
  /\ running[b] = "operation"
  /\ breaker' = [breaker EXCEPT !.failures = 0, !.state = "CLOSED"]
  /\ running' = [running EXCEPT ![b] = "resolved"]
  /\ UNCHANGED now
  /\ BreakerFrame

\* The operation rejects: onFailure() and the error is rethrown.
onFailure(b) ==
  /\ running[b] = "operation"
  /\ breaker' =
       [failures |-> breaker.failures + 1,
        lastFailureTime |-> now,
        state |-> IF breaker.failures + 1 >= Threshold THEN "OPEN"
                  ELSE breaker.state]
  /\ running' = [running EXCEPT ![b] = "rejected"]
  /\ UNCHANGED now
  /\ BreakerFrame

\* Time passes.
Tick ==
  /\ now < MaxTime
  /\ now' = now + 1
  /\ UNCHANGED <<breaker, running>>
  /\ BreakerFrame

BreakerStep(b) ==
  \/ execute(b)
  \/ onSuccess(b)
  \/ onFailure(b)

NextBreaker ==
  \/ \E b \in BreakerCallers : BreakerStep(b)
  \/ Tick

SpecBreaker == Init /\ [][NextBreaker]_vars

\* ------------------------------------------------------------------------
\* Properties.

RECURSIVE SumOver(_, _)
SumOver(S, f) ==
  IF S = {} THEN 0
  ELSE LET x == CHOOSE y \in S : TRUE IN f[x] + SumOver(S \ {x}, f)

\* Quantity of product p held by reservations in one of the states.
Held(p, states) ==
  SumOver({o \in Orders : reservation[<<p, o>>].state \in states},
          [o \in Orders |-> reservation[<<p, o>>].quantity])

\* Quantity of p added to reservedQuantity by a reserveStock that has not
\* written its reservation yet.
InFlight(p) ==
  SumOver({o \in Orders : pc[o] = "rs_setex" /\ call[o].productId = p},
          [o \in Orders |-> call[o].quantity])

\* C1: in every reachable state every product satisfies
\* availableQuantity >= reservedQuantity >= 0.
StockInvariant ==
  \A p \in Products :
    /\ inventory[p].availableQuantity >= inventory[p].reservedQuantity
    /\ inventory[p].reservedQuantity >= 0

\* C2: for every product the quantities of its PENDING and CONFIRMED
\* reservations sum to at most the physical stock it had before any of them
\* was confirmed.
NoOversell ==
  \A p \in Products : Held(p, {"PENDING", "CONFIRMED"}) <= StockLevel

\* createOrder's reserveStock calls have all returned.
Returned(o) == pc[o] \in {"save", "intent", "done", "rejected", "failed"}

\* C3: scenario A, two concurrent reservations of 3 out of 5: exactly one
\* returns a reservation and the other InsufficientStock with available = 2.
ScenarioA ==
  (/\ \A o \in Orders : items[o] = <<Item("p1", ScenarioQuantity)>>
   /\ \A o \in Orders : Returned(o))
  => \E w \in Orders :
       /\ ret[w].success
       /\ \A l \in Orders \ {w} :
            ret[l] = [success |-> FALSE,
                      availableQuantity |-> ScenarioStock - ScenarioQuantity,
                      error |-> "none"]

\* C4: an order whose reservation of a line item failed, for any reason,
\* holds no PENDING reservation once createOrder has ended.
AllOrNothing ==
  \A o \in Orders :
    pc[o] \in {"rejected", "failed"}
    => \A p \in Products : reservation[<<p, o>>].state # "PENDING"

\* Every reservation that is no longer PENDING has had its quantity taken
\* out of reservedQuantity.
NoLeak ==
  \A p \in Products :
    inventory[p].reservedQuantity <= Held(p, {"PENDING"}) + InFlight(p)

DuplicateConfirmationNoOp ==
  [][\A d \in Deliveries : \A o \in Orders :
       (/\ status[o] = "confirmed"
        /\ tgt'[d] = o
        /\ isValidPayment'[d]
        /\ pc'[d] # pc[d])
       => (status'[o] = "confirmed" /\ inventory' = inventory)]_vars

\* C7: confirm and release each change the stock on account of one
\* reservation at most once, however often and however overlapped they are
\* called.
LedgerIdempotent ==
  \A k \in Keys : applied[k].confirm <= 1 /\ applied[k].release <= 1

\* C8: once an order is CONFIRMED its status stays CONFIRMED (or becomes
\* REFUNDED) and its reservations do not change.
ConfirmationSticky ==
  [][\A o \in Orders :
       status[o] = "confirmed"
       => /\ status'[o] \in {"confirmed", "refunded"}
          /\ \A p \in Products :
               reservation'[<<p, o>>] = reservation[<<p, o>>]]_vars

\* C9: an order is CONFIRMED, or one of its reservations is, only after
\* evidence with a valid signature for that order's own payment intent was
\* verified.
ConfirmedOnlyWhenVerified ==
  \A o \in Orders :
    (\/ status[o] = "confirmed"
     \/ \E p \in Products : reservation[<<p, o>>].state = "CONFIRMED")
    => o \in verified

\* C10: scenario D, an order that awaits payment receives evidence that
\* fails the signature check, and never any that passes it: when a request
\* has been handled the order is PAYMENT_FAILED, nothing of it was confirmed
\* and each of its reservations was released exactly once.
SignatureFailureReleasesOnce ==
  \A d \in Deliveries :
    (/\ pc[d] = "failed"
     /\ \A e \in Deliveries : tgt[e] = tgt[d] => ~isValidPayment[e])
    => /\ status[tgt[d]] = "payment_failed"
       /\ \A i \in 1..Len(items[tgt[d]]) :
            LET k == <<items[tgt[d]][i].productId, tgt[d]>> IN
            /\ applied[k].confirm = 0
            /\ applied[k].release = 1
            /\ reservation[k].state \in {"RELEASED", "EXPIRED"}

AbandonedAndRestored ==
  /\ status[ScenarioOrder] = "payment_failed"
  /\ \A i \in 1..Len(items[ScenarioOrder]) :
       LET p == items[ScenarioOrder][i].productId IN
       /\ reservation[<<p, ScenarioOrder>>].state \in {"EXPIRED", "RELEASED"}
       /\ inventory[p].availableQuantity - inventory[p].reservedQuantity
            = StockLevel

\* C12: scenario C, an order whose reservations succeeded and that never
\* receives a payment confirmation is eventually, and from then on,
\* PAYMENT_FAILED with its reservations released and the claimable quantity
\* of each of its products back at its value before the reservation.
ScenarioC ==
  [](pc[ScenarioOrder] = "done" => <>[]AbandonedAndRestored)

\* C13: the lock key of a product names at most one holder, and a held key
\* never passes from one caller to another: it is taken only when it is
\* not set, and reserveStock's acquire on a key that is set fails and
\* leaves the key as it is.
LeaseExclusive ==
  [][/\ \A p \in Products :
          lock'[p] # lock[p] => (lock[p] = NoHolder \/ lock'[p] = NoHolder)
     /\ \A o \in Orders :
          (pc[o] = "rs_lock" /\ pc'[o] # "rs_lock")
          => IF lock[call[o].productId] = NoHolder
             THEN lock'[call[o].productId] = o /\ pc'[o] = "rs_read"
             ELSE lock' = lock /\ pc'[o] = "failed" /\ ret'[o].error = "lock"
    ]_vars

\* C13 witness: an acquire found the key held by another caller and failed,
\* and the holder still has the key.
AcquireRefused ==
  \E o \in Orders : \E p \in Products :
    /\ pc[o] = "failed"
    /\ ret[o].error = "lock"
    /\ lock[p] \in Callers \ {o}

\* C14: every write to a product's availableQuantity or reservedQuantity is
\* made by a caller that holds the product's lock at the moment of the
\* write.
WritesUnderLease ==
  [][\A p \in Products :
       inventory'[p] # inventory[p]
       => \E c \in Callers : pc'[c] # pc[c] /\ lock[p] = c]_vars

\* C15: a lock key that names a holder is removed only by that holder's own
\* release or by its expiry; the release of a caller that lost the key
\* leaves the key of its new holder in place.
ReleaseByHolderOnly ==
  [][\A p \in Products : \A c \in Callers :
       (lock[p] = c /\ lock'[p] = NoHolder)
       => (pc' = pc \/ pc'[c] # pc[c])]_vars

\* C16: when a caller stops while it holds a product's lock, the key
\* expires, and a caller that keeps trying for that product's lock gets it.
CrashSafety ==
  \A o \in Orders : \A p \in Products :
    /\ (pc[o] = "crashed" /\ lock[p] = o) ~> (lock[p] # o)
    /\ \A w \in Orders \ {o} :
         (/\ pc[o] = "crashed"
          /\ lock[p] = o
          /\ pc[w] = "rs_lock"
          /\ call[w].productId = p) ~> (lock[p] = w)

\* C16 witness: a caller stopped inside the locked section of a product
\* and another caller now holds that product's lock.
CrashedLeaseTakenOver ==
  \E o \in Orders : \E w \in Orders \ {o} : \E p \in Products :
    /\ pc[o] = "crashed"
    /\ call[o].productId = p
    /\ lock[p] = w

\* C17: a caller that does not get the lock gives up after at most
\* MaxAttempts failed tries: no caller is ever found with more failed tries
\* than that.
AcquireBounded ==
  \A o \in Orders : attempts[o] <= MaxAttempts

\* The statuses of the specification's order state machine, by the name the
\* code stores.  An order document is saved as 'created' once its stock is
\* reserved and stays so while the payment is pending.
CoreStatuses ==
  {"created", "confirmed", "payment_failed", "cancelled", "refunded"}

\* PAYMENT_PENDING -> CONFIRMED, PAYMENT_PENDING -> PAYMENT_FAILED,
\* PAYMENT_FAILED -> CANCELLED and CONFIRMED -> REFUNDED.
AllowedChanges ==
  { <<"created", "confirmed">>, <<"created", "payment_failed">>,
    <<"payment_failed", "cancelled">>, <<"confirmed", "refunded">> }

\* C18: every change of an order's status from one of the state machine's
\* statuses to another is one of the listed transitions; in particular no
\* order goes from confirmed to cancelled or from cancelled to refunded.
OnlyListedTransitions ==
  [][\A o \in Orders :
       (/\ status'[o] # status[o]
        /\ status[o] \in CoreStatuses
        /\ status'[o] \in CoreStatuses)
       => <<status[o], status'[o]>> \in AllowedChanges]_vars

\* C19: an order becomes cancelled only from payment_failed and refunded
\* only from confirmed, both without a change to any stock record or
\* reservation, and the status of a cancelled or refunded order never
\* changes again.
CancelRefundFrame ==
  [][\A o \in Orders :
       /\ (status'[o] = "cancelled" /\ status[o] # "cancelled")
          => /\ status[o] = "payment_failed"
             /\ UNCHANGED <<inventory, reservation>>
       /\ (status'[o] = "refunded" /\ status[o] # "refunded")
          => /\ status[o] = "confirmed"
             /\ UNCHANGED <<inventory, reservation>>
       /\ status[o] \in {"cancelled", "refunded"}
          => status'[o] = status[o]]_vars

\* C20: every reservation that is made leaves the PENDING state, and when
\* no order is ever paid no product's reservedQuantity stays raised for
\* ever, also when createOrder fails or stops after its stock updates.
NoReservationLeaked ==
  /\ \A k \in Keys :
       (reservation[k].state = "PENDING")
       ~> (reservation[k].state \in {"CONFIRMED", "RELEASED", "EXPIRED"})
  /\ <>[](\A p \in Products : inventory[p].reservedQuantity <= 0)

\* C21: a reservation that is CONFIRMED, RELEASED or EXPIRED does not change
\* any more and no stock is changed on its account, and no reservation is
\* ever both sold by a confirm and given back by a release.
TerminalImmutable ==
  [][\A k \in Keys :
       /\ reservation[k].state \in {"CONFIRMED", "RELEASED", "EXPIRED"}
          => (reservation'[k] = reservation[k] /\ applied'[k] = applied[k])
       /\ ~(applied'[k].confirm > 0 /\ applied'[k].release > 0)]_vars

\* C22: the failed-payment event of an order delivered twice leaves the
\* order and the stock as one delivery does: when both deliveries have been
\* handled the order is payment_failed and each of its reservations is
\* RELEASED with its quantity given back once.
DuplicateFailureIdempotent ==
  \A d \in Deliveries : \A e \in Deliveries \ {d} :
    (/\ pc[d] = "failed" /\ pc[e] = "failed"
     /\ tgt[d] = tgt[e]
     /\ ~isValidPayment[d] /\ ~isValidPayment[e])
    => /\ status[tgt[d]] = "payment_failed"
       /\ \A i \in 1..Len(items[tgt[d]]) :
            LET k == <<items[tgt[d]][i].productId, tgt[d]>> IN
            /\ reservation[k].state = "RELEASED"
            /\ applied[k] = [confirm |-> 0, release |-> 1]

\* C23: a reserveStock whose quantity exceeds availableQuantity -
\* reservedQuantity returns success false with that difference, writes no
\* reservation and no movement, changes neither quantity of the product and
\* deletes the lock key before it returns.
InsufficientStockFrame ==
  [][\A o \in Orders :
       LET p == call[o].productId
           free == inventory[p].availableQuantity
                     - inventory[p].reservedQuantity
       IN  /\ (/\ pc[o] = "rs_read"
               /\ pc'[o] # "rs_read"
               /\ free < call[o].quantity)
              => /\ ret'[o] = [success |-> FALSE, availableQuantity |-> free,
                               error |-> "none"]
                 /\ pc'[o] = "rs_unlock"
                 /\ inventory' = inventory
                 /\ reservation' = reservation
           /\ (pc[o] = "rs_unlock" /\ ~ret[o].success /\ pc'[o] # "rs_unlock")
              => /\ lock'[p] = NoHolder
                 /\ inventory' = inventory
                 /\ reservation' = reservation
                 /\ reservation[<<p, o>>] = NoReservation]_vars

\* C23 witness: a reserveStock has returned Insufficient stock with the
\* free quantity of the product, which has no reservation of the order and
\* no lock.
InsufficientReturned ==
  \E o \in Orders :
    LET p == items[o][Len(items[o])].productId IN
    /\ pc[o] \in {"rejected", "rl_get"}
    /\ ~ret[o].success
    /\ ret[o].error = "none"
    /\ ret[o].availableQuantity
         = inventory[p].availableQuantity - inventory[p].reservedQuantity
    /\ ret[o].availableQuantity < items[o][Len(items[o])].quantity
    /\ reservation[<<p, o>>] = NoReservation
    /\ lock[p] = NoHolder

\* A caller is between the acquisition of p's lock and its release.
InCritical(p) ==
  \E c \in Orders \cup Deliveries :
    /\ call[c].productId = p
    /\ pc[c] \in {"rs_read", "rs_inc", "rs_setex", "rs_unlock", "cf_body"}

\* C24: whenever no caller is inside a locked section of a product, the
\* product's reservedQuantity is the sum of the quantities of its PENDING
\* reservations.
ReservedIsPendingSum ==
  \A p \in Products :
    (lock[p] = NoHolder /\ ~InCritical(p))
    => inventory[p].reservedQuantity = Held(p, {"PENDING"})

\* Every processPayment request for order o has ended.
Settled(o) ==
  \A d \in Deliveries : tgt[d] = o => pc[d] \in {"done", "failed"}

\* C25: no order is confirmed while one of its reservations is RELEASED or
\* EXPIRED, and when the payment requests of an order have ended the order
\* is not partly confirmed: if one of its reservations is CONFIRMED then
\* all are and the order is confirmed.
OrderConfirmAtomic ==
  \A o \in Orders :
    LET states == {reservation[<<items[o][i].productId, o>>].state :
                     i \in 1..Len(items[o])}
    IN  /\ status[o] = "confirmed"
           => states \cap {"RELEASED", "EXPIRED"} = {}
        /\ (Settled(o) /\ "CONFIRMED" \in states)
           => (states = {"CONFIRMED"} /\ status[o] = "confirmed")

\* Every reservation of order o is CONFIRMED.
AllConfirmed(o) ==
  \A i \in 1..Len(items[o]) :
    reservation[<<items[o][i].productId, o>>].state = "CONFIRMED"

\* C26: once every reservation of an order is confirmed, no step makes the
\* order payment_failed, changes one of its reservations or changes stock
\* on their account, whatever fails afterwards in the payment request.
CollaboratorFailureHarmless ==
  [][\A o \in Orders :
       AllConfirmed(o)
       => /\ status'[o] # "payment_failed"
          /\ \A p \in Products :
               /\ reservation'[<<p, o>>] = reservation[<<p, o>>]
               /\ applied'[<<p, o>>] = applied[<<p, o>>]]_vars

\* C27: a confirm of a reservation that is PENDING but past its expiry does
\* not succeed: the reservation is not set CONFIRMED, no stock is changed,
\* and the payment request goes to its failure handling.
ExpiredNotConfirmed ==
  [][/\ \A k \in Keys :
          (reservation[k].state = "PENDING" /\ reservation[k].expired)
          => /\ reservation'[k].state # "CONFIRMED"
             /\ applied'[k].confirm = applied[k].confirm
     /\ \A d \in Deliveries :
          LET r == reservation[<<call[d].productId, call[d].orderId>>] IN
          (/\ pc[d] = "cf_body"
           /\ pc'[d] # "cf_body"
           /\ r.state = "PENDING" /\ r.expired)
          => (inventory' = inventory /\ pc'[d] = "pf_status")]_vars

\* C27 witness: a payment request with valid evidence was refused at its
\* first line item, whose reservation is PENDING, past its expiry and not
\* yet swept.
ExpiredConfirmRefused ==
  \E d \in Deliveries :
    LET k == <<items[tgt[d]][1].productId, tgt[d]>> IN
    /\ pc[d] = "pf_status"
    /\ isValidPayment[d]
    /\ reservation[k].state = "PENDING"
    /\ reservation[k].expired
    /\ applied[k].confirm = 0

\* C28: a reserveStock for an order and product that already have a PENDING
\* reservation does not raise reservedQuantity again, and when the
\* reservation of the pair is released nothing of it stays in
\* reservedQuantity.
OneReservationPerPair ==
  [][\A o \in Orders : \A p \in Products :
       /\ (/\ reservation[<<p, o>>].state = "PENDING"
           /\ call[o].productId = p
           /\ pc[o] = "rs_inc"
           /\ pc'[o] = "rs_setex")
          => inventory'[p].reservedQuantity = inventory[p].reservedQuantity
       /\ (/\ reservation[<<p, o>>].state = "PENDING"
           /\ reservation'[<<p, o>>].state = "RELEASED")
          => inventory'[p].reservedQuantity
               <= (Held(p, {"PENDING"}) + InFlight(p))']_vars

\* Every line item of order o has a PENDING reservation.
AllPending(o) ==
  \A i \in 1..Len(items[o]) :
    reservation[<<items[o][i].productId, o>>].state = "PENDING"

LateExpiryIgnored ==
  [][\A o \in Orders :
       (tgt[TimeoutHandler] = o /\ pc'[TimeoutHandler] # pc[TimeoutHandler])
       => /\ status[o] # "created" => status'[o] = status[o]
          /\ status[o] \in {"confirmed", "cancelled", "refunded"}
             => inventory' = inventory]_vars

\* The steps of reserveStock between the SET of the lock key and the del of
\* the finally block.
InReserve == {"rs_read", "rs_inc", "rs_setex", "rs_unlock", "rs_thrown"}

GuardedWrite ==
  [][\A o \in Orders :
       (pc[o] = "rs_inc" /\ pc'[o] = "rs_setex")
       => LET inv == inventory[call[o].productId]
          IN  inv.availableQuantity - inv.reservedQuantity
                >= call[o].quantity]_vars

\* The positions of a caller inside reserveStock, the confirm and
\* releaseReservation.
InLedger ==
  InReserve \cup {"rs_lock", "cf_lock", "cf_body", "rl_get", "rl_inc", "rl_del"}

\* C33: a step of reserveStock, of the confirm or of releaseReservation for
\* product p changes neither the stock record, nor a reservation, nor the
\* lock key of any other product, and an acquire fails only when the lock
\* key of its own product is set.
OtherProductsUntouched ==
  [][\A c \in Callers :
       (pc[c] \in InLedger /\ pc'[c] # pc[c])
       => /\ \A q \in Products \ {call[c].productId} :
               /\ inventory'[q] = inventory[q]
               /\ lock'[q] = lock[q]
               /\ \A o \in Orders :
                    reservation'[<<q, o>>] = reservation[<<q, o>>]
          /\ (pc[c] = "rs_lock" /\ pc'[c] = "failed")
             => lock[call[c].productId] # NoHolder
          /\ (pc[c] = "cf_lock" /\ pc'[c] = "pf_status")
             => lock[call[c].productId] # NoHolder]_vars

\* C33 witness: two callers are inside reserveStock at once, each with the
\* lock of its own product, and one has raised its product's
\* reservedQuantity.
TwoProductsLocked ==
  /\ lock["p1"] = "o1" /\ lock["p2"] = "o2"
  /\ pc["o1"] = "rs_setex" /\ pc["o2"] = "rs_read"
  /\ inventory["p2"].reservedQuantity = 0

\* The product that only one order has in its cart.
SoleProduct == "p1"

\* C34: availableQuantity of a product changes only in the step of a
\* confirm for that product; reserveStock raises reservedQuantity by the
\* quantity it writes into the reservation and releaseReservation lowers it
\* by the quantity of that reservation, so that a reservation made and
\* released once leaves reservedQuantity where it was before.
OnlyConfirmSells ==
  /\ [][/\ \A p \in Products :
            inventory'[p].availableQuantity # inventory[p].availableQuantity
            => \E d \in Deliveries :
                 /\ pc[d] = "cf_body" /\ pc'[d] # "cf_body"
                 /\ call[d].productId = p
        /\ \A c \in Callers :
            LET p == call[c].productId
                k == <<call[c].productId, call[c].orderId>>
            IN  /\ (pc[c] = "rs_inc" /\ pc'[c] = "rs_setex")
                   => inventory'[p].reservedQuantity =
                        inventory[p].reservedQuantity + call[c].quantity
                /\ (pc[c] = "rs_setex" /\ pc'[c] = "rs_unlock")
                   => reservation'[k].quantity = call[c].quantity
                /\ (pc[c] = "rl_inc" /\ pc'[c] = "rl_del")
                   => inventory'[p].reservedQuantity =
                        inventory[p].reservedQuantity
                          - reservation[k].quantity]_vars
  /\ [](\A o \in Orders :
         LET k == <<SoleProduct, o>> IN
         (/\ reservation[k].state \in {"RELEASED", "EXPIRED"}
          /\ applied[k] = [confirm |-> 0, release |-> 1])
         => inventory[SoleProduct].reservedQuantity = 0)

\* C34 witness: a reservation was made and released once, and both
\* quantities of its product are what they were before the reservation.
ReservedAndRestored ==
  \E o \in Orders :
    /\ reservation[<<SoleProduct, o>>] =
         [quantity |-> 2, state |-> "RELEASED", expired |-> FALSE]
    /\ applied[<<SoleProduct, o>>] = [confirm |-> 0, release |-> 1]
    /\ inventory[SoleProduct] =
         [availableQuantity |-> StockLevel, reservedQuantity |-> 0]

\* C35: assignDeliveryPartner does not return a partner that another
\* caller was given and that has not been set available since; the partner
\* it returns is unavailable from then on, and a partner becomes available
\* again only by markAsAvailable or updatePartnerStatus.
PartnerAssignedOnce ==
  [][/\ \A c \in Clients :
          (request[c].pc = "as_update" /\ request'[c].pc = "idle")
          => /\ ~partners'[request[c].partner].isAvailable
             /\ ~\E e \in Clients \ {c} :
                   /\ request[e].result = "partner"
                   /\ request[e].returned = request[c].partner
                   /\ ~partners[request[c].partner].isAvailable
     /\ \A id \in PartnerIds :
          (Registered(id) /\ ~partners[id].isAvailable
             /\ partners'[id].isAvailable)
          => \E c \in Clients :
               /\ request[c].pc = "idle"
               /\ request'[c].partner = id
               /\ request'[c].result \in {"true", "200"}
               /\ \A e \in Clients \ {c} : request'[e] = request[e]]_vars

\* C36: no two documents of the collection have the same phone, and a
\* registration whose phone, trimmed, is already stored is answered with an
\* error and leaves the collection as it is.
PhoneUnique ==
  /\ [](\A id \in PartnerIds : \A other \in PartnerIds \ {id} :
         Registered(id) => partners[other].phone # partners[id].phone)
  /\ [][\A c \in Clients :
         (/\ request'[c] # request[c]
          /\ request'[c].pc = "idle"
          /\ request'[c].phone # <<>>
          /\ WithPhone(Trim(request'[c].phone)) # {})
         => /\ partners' = partners
            /\ request'[c].result \in {"400", "error"}]_vars

\* C36 witness: two registrations with the same phone ran side by side,
\* one created the partner, the other was refused by the unique index, and
\* the phone is stored once.
DuplicateRefused ==
  \E c \in Clients : \E e \in Clients \ {c} :
    /\ request[c].result = "201"
    /\ request[e].result = "error"
    /\ Trim(request[c].phone) = Trim(request[e].phone)
    /\ Cardinality(WithPhone(Trim(request[c].phone))) = 1

\* The rollback operations that have to run after operations 0..n-1 have
\* completed: n-1 first, 0 last.
Downwards(n) == [j \in 1..n |-> n - j]

\* C37: when executeWithRollback has thrown because operation f rejected,
\* the operations 0..f-1 and no others had completed, the rollback
\* operations run are exactly theirs, from f-1 down to 0, whether or not
\* some of them rejected, and the error thrown is the one of operation f;
\* when it has returned, every operation has completed and no rollback
\* operation was run.
RollbackInReverse ==
  /\ tx.pc = "thrown"
     => /\ tx.thrown = tx.error
        /\ Len(tx.executed) = Len(tx.completedOperations)
        /\ \A j \in 1..Len(tx.executed) :
             tx.executed[j][1] = Downwards(Len(tx.completedOperations))[j]
        /\ tx.error[1] = "operation"
           => tx.completedOperations = [j \in 1..tx.error[2] |-> j - 1]
  /\ tx.pc = "returned"
     => /\ tx.executed = <<>>
        /\ tx.completedOperations = [j \in 1..tx.length |-> j - 1]

\* C37 witness: the third operation rejected, the rollback of the second
\* rejected too, the rollback of the first was still run and the error of
\* the third operation was thrown.
RolledBackPastFailure ==
  /\ tx.pc = "thrown"
  /\ tx.thrown = <<"operation", 2>>
  /\ tx.executed = << <<1, FALSE>>, <<0, TRUE>> >>

\* C38: an OPEN breaker whose timeout has not passed refuses a call
\* without starting its operation; the breaker becomes OPEN only by a
\* failure that brings the count of failures since the last success to the
\* threshold; after the timeout a call is let through and the breaker is
\* HALF_OPEN, and no further call is let through while it is; a success
\* sets the breaker CLOSED with count 0 and a failure in HALF_OPEN sets it
\* OPEN.
BreakerProtocol ==
  [][\A b \in BreakerCallers :
       LET begins == running[b] # "operation" /\ running'[b] = "operation"
           settles == running[b] = "operation" /\ running'[b] # "operation"
           elapsed == now - breaker.lastFailureTime > Timeout
           calls == running[b] # "operation" /\ running'[b] # running[b]
       IN  /\ (breaker.state = "OPEN" /\ ~elapsed /\ calls)
              => (running'[b] = "refused" /\ breaker' = breaker)
           /\ (breaker.state = "OPEN" /\ begins)
              => breaker'.state = "HALF_OPEN"
           /\ (breaker.state = "HALF_OPEN") => ~begins
           /\ (breaker.state # "OPEN" /\ breaker'.state = "OPEN")
              => /\ \E c \in BreakerCallers : running'[c] = "rejected"
                 /\ breaker'.failures = breaker.failures + 1
                 /\ breaker'.failures >= Threshold
           /\ (settles /\ running'[b] = "resolved")
              => (breaker'.state = "CLOSED" /\ breaker'.failures = 0)
           /\ (settles /\ running'[b] = "rejected"
                 /\ breaker.state = "HALF_OPEN")
              => breaker'.state = "OPEN"]_vars

====
